---- MODULE Spec2Model ----
(***************************************************************************)
(* sysbox-fs: the FUSE adapter (fuse.File), the /proc/sys/kernel/          *)
(* panic_on_oops handler (KernelPanicOopsHandler) and the per-container    *)
(* state store it caches values in.                                        *)
(*                                                                         *)
(* Go strings and byte slices are sequences of one-character strings, so   *)
(* that trimming, parsing and line splitting are computed, not assumed.    *)
(***************************************************************************)
EXTENDS Integers, Sequences, FiniteSets, TLC

VARIABLES
    hostFile,    \* content of the host's /proc/sys/kernel/panic_on_oops
    cntrs,       \* state store: pid-ns inode of each registered container -> its data cache
    openFlags,   \* ionode.flags of the node, as left by the last SetOpenFlags
    ionodeOpen,  \* TRUE once the ionode holds an open host file (n.Open() succeeded)
    handles,     \* number of file handles the kernel holds on the node (Open minus Release)
    attr,        \* f.attr, the attributes cached for the node at lookup
    resp,        \* the last request served and its reply
    hist,        \* history: per container, how its value came about (seeding Read or Write)
    reqs,        \* interleaved specification: the requests in flight
    log,         \* interleaved specification: history of the values written and stored
    nodeDB,      \* f.service.nodeDB: the adapter's table from path to live node
    lock         \* f.service's lock: the request that holds it, 0 when it is free

vars ==
    <<hostFile, cntrs, openFlags, ionodeOpen, handles, attr, resp, hist, reqs, log,
      nodeDB, lock>>

\* ------------------------------------------------------------------ bounds

\* Handles the kernel holds open on the node at one time.
MaxHandles == 1

\* Requests in flight at the same time in the interleaved specification.
MaxReqs == 2

\* ------------------------------------------------------------- constants

O_RDONLY == 0
O_WRONLY == 1
O_RDWR == 2

\* The nil *Container of a failed lookup.
NoContainer == 0

PanicOopsPath == "/proc/sys/kernel/panic_on_oops"
PanicOopsName == "panic_on_oops"

\* ------------------------------------------------ strings and conversions

NL == "\n"

\* unicode.IsSpace, on the characters the model uses.
IsSpace(c) == c \in {" ", "\t", NL, "\r"}

IsDigit(c) == c \in {"0", "1", "2", "3", "4", "5", "6", "7", "8", "9"}

DigitVal(c) ==
    CASE c = "0" -> 0 [] c = "1" -> 1 [] c = "2" -> 2 [] c = "3" -> 3
      [] c = "4" -> 4 [] c = "5" -> 5 [] c = "6" -> 6 [] c = "7" -> 7
      [] c = "8" -> 8 [] c = "9" -> 9

RECURSIVE TrimLeft(_)
TrimLeft(s) ==
    IF s # <<>> /\ IsSpace(Head(s)) THEN TrimLeft(Tail(s)) ELSE s

RECURSIVE TrimRight(_)
TrimRight(s) ==
    IF s # <<>> /\ IsSpace(s[Len(s)]) THEN TrimRight(SubSeq(s, 1, Len(s) - 1)) ELSE s

\* strings.TrimSpace: all leading and trailing white space removed.
TrimSpace(s) == TrimRight(TrimLeft(s))

RECURSIVE DigitsVal(_, _)
DigitsVal(s, acc) ==
    IF s = <<>> THEN acc ELSE DigitsVal(Tail(s), acc * 10 + DigitVal(Head(s)))

AllDigits(s) == \A i \in 1..Len(s) : IsDigit(s[i])

\* strconv.Atoi: an optional sign, then one or more decimal digits. (The
\* strings of the model are far shorter than an integer that overflows.)
Atoi(s) ==
    LET signed == s # <<>> /\ Head(s) \in {"+", "-"}
        digits == IF signed THEN Tail(s) ELSE s
    IN  IF digits # <<>> /\ AllDigits(digits)
        THEN [ok |-> TRUE,
              val |-> IF signed /\ Head(s) = "-"
                      THEN 0 - DigitsVal(digits, 0) ELSE DigitsVal(digits, 0)]
        ELSE [ok |-> FALSE, val |-> 0]

Min(a, b) == IF a < b THEN a ELSE b

\* --------------------------------------------------- external collaborators

\* The processes that issue requests: two of container A, one of container B,
\* and one whose pid namespace cannot be resolved.
Pids == {11, 12, 21, 99}

\* domain.HandlerService.FindPidNsInode: the pid-namespace inode of a pid, 0
\* when it cannot be resolved.
FindPidNsInode(pid) ==
    CASE pid \in {11, 12} -> 1
      [] pid = 21 -> 2
      [] OTHER -> 0

\* The pid-namespace inodes a container can be registered under.
Inodes == {1, 2}

\* What the host file may hold: the kernel's two values, an integer outside
\* them with no line terminator, and text that is no integer.
HostContents == {<<"0", NL>>, <<"1", NL>>, <<"5">>, <<"x", NL>>}

RECURSIVE UpToNewline(_)
UpToNewline(s) ==
    IF s = <<>> \/ Head(s) = NL THEN <<>> ELSE <<Head(s)>> \o UpToNewline(Tail(s))

\* domain.IOnode.ReadLine: the first line of the host file without its
\* terminator; io.EOF when the content ends before a terminator; a failure of
\* the host read is the caller's choice of ioFail.
ReadLine(content, ioFail) ==
    IF ioFail THEN [line |-> <<>>, err |-> "EIO"]
    ELSE [line |-> UpToNewline(content),
          err |-> IF \E i \in 1..Len(content) : content[i] = NL THEN "OK" ELSE "EOF"]

\* The error numbers of the typed errors (fuse.IOerror{Code}, fuse.EPERM,
\* fuse.ENOTSUP) the handlers and the adapter return. The other errors are
\* made by errors.New and fmt.Errorf and carry a message only.
PosixCodes == {"ENOENT", "EACCES", "EIO", "EINVAL", "EPERM", "ENOTSUP"}

\* ------------------------------------------------------ container state store

Key(path, name) == <<path, name>>

EmptyCache == [k \in {} |-> <<>>]

\* domain.ContainerStateService.ContainerLookupByPid: the container record
\* registered under the pid's pid-namespace inode, NoContainer when there is none.
ContainerLookupByPid(C, pid) ==
    LET ino == FindPidNsInode(pid)
    IN  IF ino # 0 /\ ino \in DOMAIN C THEN ino ELSE NoContainer

\* domain.ContainerIface.Data: the value cached under (path, name), if any.
Data(cache, path, name) ==
    IF Key(path, name) \in DOMAIN cache
    THEN [val |-> cache[Key(path, name)], ok |-> TRUE]
    ELSE [val |-> <<>>, ok |-> FALSE]

\* domain.ContainerIface.SetData: store a value under (path, name).
SetData(cache, path, name, v) ==
    [k \in DOMAIN cache \cup {Key(path, name)} |->
        IF k = Key(path, name) THEN v ELSE cache[k]]

\* copyResultBuffer: copy the result into the caller's buffer of size bytes.
copyResultBuffer(size, data) ==
    [n |-> Min(size, Len(data)), data |-> SubSeq(data, 1, Min(size, Len(data)))]

\* ------------------------------------------- KernelPanicOopsHandler (handler)
\* Each handler method is an operator from the state it reads (C the state
\* store, H the host file) and its arguments to its results and the state it
\* leaves behind.

\* Lookup: fails when the pid namespace is unknown, else stats the host path.
KernelPanicOopsHandler_Lookup(pid, statFail) ==
    IF FindPidNsInode(pid) = 0
    THEN [err |-> "NoPidNsInode", stat |-> FALSE]
    ELSE [err |-> IF statFail THEN "ENOENT" ELSE "OK", stat |-> TRUE]

\* Getattr: delegates to the common handler, whose Getattr answers (nil, nil).
KernelPanicOopsHandler_Getattr(pid, haveCommon) ==
    IF ~haveCommon
    THEN [err |-> "NoCommonHandler", stat |-> FALSE, uid |-> 0, gid |-> 0]
    ELSE [err |-> "OK", stat |-> FALSE, uid |-> 0, gid |-> 0]

\* A mutant of Open: only read-write is refused.
KernelPanicOopsHandler_Open_OnlyRdwrRefused(flags, isOpen, openFail) ==
    IF flags = O_RDWR
    THEN [err |-> "EACCES", ionodeOpen |-> isOpen, opened |-> FALSE]
    ELSE IF openFail
    THEN [err |-> "EIO", ionodeOpen |-> isOpen, opened |-> TRUE]
    ELSE [err |-> "OK", ionodeOpen |-> TRUE, opened |-> TRUE]

\* Open: flags other than exactly O_RDONLY or O_WRONLY are refused, then the
\* host file is opened through the ionode.
KernelPanicOopsHandler_Open(flags, isOpen, openFail) ==
    IF flags # O_RDONLY /\ flags # O_WRONLY
    THEN [err |-> "EACCES", ionodeOpen |-> isOpen, opened |-> FALSE]
    ELSE IF openFail
    THEN [err |-> "EIO", ionodeOpen |-> isOpen, opened |-> TRUE]
    ELSE [err |-> "OK", ionodeOpen |-> TRUE, opened |-> TRUE]

\* Close: returns nil and leaves the ionode as it is.
KernelPanicOopsHandler_Close(isOpen) ==
    [err |-> "OK", ionodeOpen |-> isOpen]

ReadFailed(C, H, e, hostRead) ==
    [n |-> 0, err |-> e, data |-> <<>>, cntrs |-> C, host |-> H, hostRead |-> hostRead]

\* A mutant of Read: the value read from the host is served but not stored.
KernelPanicOopsHandler_Read_NoSeed(C, H, pid, size, off, ioFail) ==
    LET cntr == ContainerLookupByPid(C, pid)
        d    == Data(C[cntr], PanicOopsPath, PanicOopsName)
        rl   == ReadLine(H, ioFail)
    IN  IF off > 0 THEN ReadFailed(C, H, "EOF", FALSE)
        ELSE IF cntr = NoContainer THEN ReadFailed(C, H, "ContainerNotFound", FALSE)
        ELSE IF d.ok
        THEN [n |-> copyResultBuffer(size, d.val \o <<NL>>).n, err |-> "OK",
              data |-> copyResultBuffer(size, d.val \o <<NL>>).data,
              cntrs |-> C, host |-> H, hostRead |-> FALSE]
        ELSE IF rl.err \notin {"OK", "EOF"} THEN ReadFailed(C, H, "EIO", TRUE)
        ELSE IF ~Atoi(rl.line).ok THEN ReadFailed(C, H, "EINVAL", TRUE)
        ELSE [n |-> copyResultBuffer(size, rl.line \o <<NL>>).n, err |-> "OK",
              data |-> copyResultBuffer(size, rl.line \o <<NL>>).data,
              cntrs |-> C, host |-> H, hostRead |-> TRUE]

\* A mutant of Read: a missing container is reported as end-of-stream.
KernelPanicOopsHandler_Read_NotFoundAsEOF(C, H, pid, size, off, ioFail) ==
    LET cntr == ContainerLookupByPid(C, pid)
        d    == Data(C[cntr], PanicOopsPath, PanicOopsName)
        rl   == ReadLine(H, ioFail)
    IN  IF off > 0 THEN ReadFailed(C, H, "EOF", FALSE)
        ELSE IF cntr = NoContainer THEN ReadFailed(C, H, "EOF", FALSE)
        ELSE IF d.ok
        THEN [n |-> copyResultBuffer(size, d.val \o <<NL>>).n, err |-> "OK",
              data |-> copyResultBuffer(size, d.val \o <<NL>>).data,
              cntrs |-> C, host |-> H, hostRead |-> FALSE]
        ELSE IF rl.err \notin {"OK", "EOF"} THEN ReadFailed(C, H, "EIO", TRUE)
        ELSE IF ~Atoi(rl.line).ok THEN ReadFailed(C, H, "EINVAL", TRUE)
        ELSE [n |-> copyResultBuffer(size, rl.line \o <<NL>>).n, err |-> "OK",
              data |-> copyResultBuffer(size, rl.line \o <<NL>>).data,
              cntrs |-> [C EXCEPT ![cntr] = SetData(@, PanicOopsPath, PanicOopsName, rl.line)],
              host |-> H, hostRead |-> TRUE]

\* A mutant of Read: the host file is read before the container is looked up.
KernelPanicOopsHandler_Read_HostFirst(C, H, pid, size, off, ioFail) ==
    LET cntr == ContainerLookupByPid(C, pid)
        d    == Data(C[cntr], PanicOopsPath, PanicOopsName)
        rl   == ReadLine(H, ioFail)
    IN  IF off > 0 THEN ReadFailed(C, H, "EOF", FALSE)
        ELSE IF rl.err \notin {"OK", "EOF"} THEN ReadFailed(C, H, "EIO", TRUE)
        ELSE IF cntr = NoContainer THEN ReadFailed(C, H, "ContainerNotFound", TRUE)
        ELSE IF d.ok
        THEN [n |-> copyResultBuffer(size, d.val \o <<NL>>).n, err |-> "OK",
              data |-> copyResultBuffer(size, d.val \o <<NL>>).data,
              cntrs |-> C, host |-> H, hostRead |-> TRUE]
        ELSE IF ~Atoi(rl.line).ok THEN ReadFailed(C, H, "EINVAL", TRUE)
        ELSE [n |-> copyResultBuffer(size, rl.line \o <<NL>>).n, err |-> "OK",
              data |-> copyResultBuffer(size, rl.line \o <<NL>>).data,
              cntrs |-> [C EXCEPT ![cntr] = SetData(@, PanicOopsPath, PanicOopsName, rl.line)],
              host |-> H, hostRead |-> TRUE]

\* A mutant of Read: the offset is looked at only once the value is resolved.
KernelPanicOopsHandler_Read_LateOffset(C, H, pid, size, off, ioFail) ==
    LET cntr == ContainerLookupByPid(C, pid)
        d    == Data(C[cntr], PanicOopsPath, PanicOopsName)
        rl   == ReadLine(H, ioFail)
        seeded == [C EXCEPT ![cntr] = SetData(@, PanicOopsPath, PanicOopsName, rl.line)]
    IN  IF cntr = NoContainer THEN ReadFailed(C, H, "ContainerNotFound", FALSE)
        ELSE IF d.ok
        THEN IF off > 0 THEN ReadFailed(C, H, "EOF", FALSE)
             ELSE [n |-> copyResultBuffer(size, d.val \o <<NL>>).n, err |-> "OK",
                   data |-> copyResultBuffer(size, d.val \o <<NL>>).data,
                   cntrs |-> C, host |-> H, hostRead |-> FALSE]
        ELSE IF rl.err \notin {"OK", "EOF"} THEN ReadFailed(C, H, "EIO", TRUE)
        ELSE IF ~Atoi(rl.line).ok THEN ReadFailed(C, H, "EINVAL", TRUE)
        ELSE IF off > 0 THEN ReadFailed(seeded, H, "EOF", TRUE)
        ELSE [n |-> copyResultBuffer(size, rl.line \o <<NL>>).n, err |-> "OK",
              data |-> copyResultBuffer(size, rl.line \o <<NL>>).data,
              cntrs |-> seeded, host |-> H, hostRead |-> TRUE]

\* A mutant of Read: the host line is stored before its format is checked.
KernelPanicOopsHandler_Read_SeedUnchecked(C, H, pid, size, off, ioFail) ==
    LET cntr == ContainerLookupByPid(C, pid)
        d    == Data(C[cntr], PanicOopsPath, PanicOopsName)
        rl   == ReadLine(H, ioFail)
        seeded == [C EXCEPT ![cntr] = SetData(@, PanicOopsPath, PanicOopsName, rl.line)]
    IN  IF off > 0 THEN ReadFailed(C, H, "EOF", FALSE)
        ELSE IF cntr = NoContainer THEN ReadFailed(C, H, "ContainerNotFound", FALSE)
        ELSE IF d.ok
        THEN [n |-> copyResultBuffer(size, d.val \o <<NL>>).n, err |-> "OK",
              data |-> copyResultBuffer(size, d.val \o <<NL>>).data,
              cntrs |-> C, host |-> H, hostRead |-> FALSE]
        ELSE IF rl.err \notin {"OK", "EOF"} THEN ReadFailed(C, H, "EIO", TRUE)
        ELSE IF ~Atoi(rl.line).ok THEN ReadFailed(seeded, H, "EINVAL", TRUE)
        ELSE [n |-> copyResultBuffer(size, rl.line \o <<NL>>).n, err |-> "OK",
              data |-> copyResultBuffer(size, rl.line \o <<NL>>).data,
              cntrs |-> seeded, host |-> H, hostRead |-> TRUE]

\* Read: end-of-stream past offset 0; "Container not found" for a pid of no
\* registered container; the cached value when there is one; else the host's
\* first line, which must parse as an integer and is then cached. The value is
\* returned followed by a newline.
KernelPanicOopsHandler_Read(C, H, pid, size, off, ioFail) ==
    LET cntr == ContainerLookupByPid(C, pid)
        d    == Data(C[cntr], PanicOopsPath, PanicOopsName)
        rl   == ReadLine(H, ioFail)
    IN  IF off > 0 THEN ReadFailed(C, H, "EOF", FALSE)
        ELSE IF cntr = NoContainer THEN ReadFailed(C, H, "ContainerNotFound", FALSE)
        ELSE IF d.ok
        THEN [n |-> copyResultBuffer(size, d.val \o <<NL>>).n, err |-> "OK",
              data |-> copyResultBuffer(size, d.val \o <<NL>>).data,
              cntrs |-> C, host |-> H, hostRead |-> FALSE]
        ELSE IF rl.err \notin {"OK", "EOF"} THEN ReadFailed(C, H, "EIO", TRUE)
        ELSE IF ~Atoi(rl.line).ok THEN ReadFailed(C, H, "EINVAL", TRUE)
        ELSE [n |-> copyResultBuffer(size, rl.line \o <<NL>>).n, err |-> "OK",
              data |-> copyResultBuffer(size, rl.line \o <<NL>>).data,
              cntrs |-> [C EXCEPT ![cntr] = SetData(@, PanicOopsPath, PanicOopsName, rl.line)],
              host |-> H, hostRead |-> TRUE]

WriteFailed(C, H, e) == [n |-> 0, err |-> e, cntrs |-> C, host |-> H]

\* A mutant of Write: the buffer is stored as received, untrimmed.
KernelPanicOopsHandler_Write_StoreRaw(C, H, pid, buf) ==
    LET newVal == TrimSpace(buf)
        parsed == Atoi(newVal)
        cntr   == ContainerLookupByPid(C, pid)
    IN  IF ~parsed.ok THEN WriteFailed(C, H, "EINVAL")
        ELSE IF parsed.val < 0 \/ parsed.val > 1 THEN WriteFailed(C, H, "EINVAL")
        ELSE IF cntr = NoContainer THEN WriteFailed(C, H, "ContainerNotFound")
        ELSE [n |-> Len(buf), err |-> "OK",
              cntrs |-> [C EXCEPT ![cntr] = SetData(@, PanicOopsPath, PanicOopsName, buf)],
              host |-> H]

\* A mutant of Write: negative integers pass the range check.
KernelPanicOopsHandler_Write_NoLowerBound(C, H, pid, buf) ==
    LET newVal == TrimSpace(buf)
        parsed == Atoi(newVal)
        cntr   == ContainerLookupByPid(C, pid)
    IN  IF ~parsed.ok THEN WriteFailed(C, H, "EINVAL")
        ELSE IF parsed.val > 1 THEN WriteFailed(C, H, "EINVAL")
        ELSE IF cntr = NoContainer THEN WriteFailed(C, H, "ContainerNotFound")
        ELSE [n |-> Len(buf), err |-> "OK",
              cntrs |-> [C EXCEPT ![cntr] = SetData(@, PanicOopsPath, PanicOopsName, newVal)],
              host |-> H]

\* A mutant of Write: integers above 1 pass the range check.
KernelPanicOopsHandler_Write_NoUpperBound(C, H, pid, buf) ==
    LET newVal == TrimSpace(buf)
        parsed == Atoi(newVal)
        cntr   == ContainerLookupByPid(C, pid)
    IN  IF ~parsed.ok THEN WriteFailed(C, H, "EINVAL")
        ELSE IF parsed.val < 0 THEN WriteFailed(C, H, "EINVAL")
        ELSE IF cntr = NoContainer THEN WriteFailed(C, H, "ContainerNotFound")
        ELSE [n |-> Len(buf), err |-> "OK",
              cntrs |-> [C EXCEPT ![cntr] = SetData(@, PanicOopsPath, PanicOopsName, newVal)],
              host |-> H]

\* A mutant of Write: a Write of 0 takes the entry out of the container's
\* record, so that the next Read falls back on the host.
KernelPanicOopsHandler_Write_ZeroClears(C, H, pid, buf) ==
    LET newVal == TrimSpace(buf)
        parsed == Atoi(newVal)
        cntr   == ContainerLookupByPid(C, pid)
        kept   == DOMAIN C[cntr] \ {Key(PanicOopsPath, PanicOopsName)}
    IN  IF ~parsed.ok THEN WriteFailed(C, H, "EINVAL")
        ELSE IF parsed.val < 0 \/ parsed.val > 1 THEN WriteFailed(C, H, "EINVAL")
        ELSE IF cntr = NoContainer THEN WriteFailed(C, H, "ContainerNotFound")
        ELSE IF parsed.val = 0
        THEN [n |-> Len(buf), err |-> "OK",
              cntrs |-> [C EXCEPT ![cntr] = [k \in kept |-> C[cntr][k]]],
              host |-> H]
        ELSE [n |-> Len(buf), err |-> "OK",
              cntrs |-> [C EXCEPT ![cntr] = SetData(@, PanicOopsPath, PanicOopsName, newVal)],
              host |-> H]

\* A mutant of Write: the value is stored in every container's record.
KernelPanicOopsHandler_Write_AllContainers(C, H, pid, buf) ==
    LET newVal == TrimSpace(buf)
        parsed == Atoi(newVal)
        cntr   == ContainerLookupByPid(C, pid)
    IN  IF ~parsed.ok THEN WriteFailed(C, H, "EINVAL")
        ELSE IF parsed.val < 0 \/ parsed.val > 1 THEN WriteFailed(C, H, "EINVAL")
        ELSE IF cntr = NoContainer THEN WriteFailed(C, H, "ContainerNotFound")
        ELSE [n |-> Len(buf), err |-> "OK",
              cntrs |-> [c \in DOMAIN C |-> SetData(C[c], PanicOopsPath, PanicOopsName, newVal)],
              host |-> H]

\* A mutant of Write: the value is pushed down to the host file as well.
KernelPanicOopsHandler_Write_Through(C, H, pid, buf) ==
    LET newVal == TrimSpace(buf)
        parsed == Atoi(newVal)
        cntr   == ContainerLookupByPid(C, pid)
    IN  IF ~parsed.ok THEN WriteFailed(C, H, "EINVAL")
        ELSE IF parsed.val < 0 \/ parsed.val > 1 THEN WriteFailed(C, H, "EINVAL")
        ELSE IF cntr = NoContainer THEN WriteFailed(C, H, "ContainerNotFound")
        ELSE [n |-> Len(buf), err |-> "OK",
              cntrs |-> [C EXCEPT ![cntr] = SetData(@, PanicOopsPath, PanicOopsName, newVal)],
              host |-> newVal \o <<NL>>]

\* A mutant of Write: the length of the stored text is returned.
KernelPanicOopsHandler_Write_TrimmedCount(C, H, pid, buf) ==
    LET newVal == TrimSpace(buf)
        parsed == Atoi(newVal)
        cntr   == ContainerLookupByPid(C, pid)
    IN  IF ~parsed.ok THEN WriteFailed(C, H, "EINVAL")
        ELSE IF parsed.val < 0 \/ parsed.val > 1 THEN WriteFailed(C, H, "EINVAL")
        ELSE IF cntr = NoContainer THEN WriteFailed(C, H, "ContainerNotFound")
        ELSE [n |-> Len(newVal), err |-> "OK",
              cntrs |-> [C EXCEPT ![cntr] = SetData(@, PanicOopsPath, PanicOopsName, newVal)],
              host |-> H]

\* Write: the trimmed buffer must parse as an integer in 0..1 (EINVAL), the
\* pid must belong to a registered container ("Container not found"); the
\* trimmed text is then stored in the container and len(buf) is returned. The
\* host file is not written.
KernelPanicOopsHandler_Write(C, H, pid, buf) ==
    LET newVal == TrimSpace(buf)
        parsed == Atoi(newVal)
        cntr   == ContainerLookupByPid(C, pid)
    IN  IF ~parsed.ok THEN WriteFailed(C, H, "EINVAL")
        ELSE IF parsed.val < 0 \/ parsed.val > 1 THEN WriteFailed(C, H, "EINVAL")
        ELSE IF cntr = NoContainer THEN WriteFailed(C, H, "ContainerNotFound")
        ELSE [n |-> Len(buf), err |-> "OK",
              cntrs |-> [C EXCEPT ![cntr] = SetData(@, PanicOopsPath, PanicOopsName, newVal)],
              host |-> H]

\* ------------------------------------ FsBinfmtRegisterHandler, SysCommonHandler

FsBinfmtRegisterHandler_Lookup(pid, statFail) == [err |-> "ENOENT", stat |-> FALSE]

FsBinfmtRegisterHandler_Getattr(pid) ==
    [err |-> "OK", stat |-> FALSE, uid |-> 0, gid |-> 0]

FsBinfmtRegisterHandler_Open(flags, isOpen, openFail) ==
    [err |-> "OK", ionodeOpen |-> isOpen, opened |-> FALSE]

FsBinfmtRegisterHandler_Close(isOpen) == [err |-> "OK", ionodeOpen |-> isOpen]

FsBinfmtRegisterHandler_Read(C, H, pid, size, off, ioFail) ==
    [n |-> 0, err |-> "OK", data |-> <<>>, cntrs |-> C, host |-> H, hostRead |-> FALSE]

FsBinfmtRegisterHandler_Write(C, H, pid, buf) ==
    [n |-> 0, err |-> "OK", cntrs |-> C, host |-> H]

\* A mutant of the common Lookup: the host path is statted whoever asks.
SysCommonHandler_Lookup_NoPidCheck(pid, statFail) ==
    [err |-> IF statFail THEN "ENOENT" ELSE "OK", stat |-> TRUE]

\* Lookup: fails when the pid namespace is unknown, else stats the host path.
SysCommonHandler_Lookup(pid, statFail) ==
    IF FindPidNsInode(pid) = 0
    THEN [err |-> "NoPidNsInode", stat |-> FALSE]
    ELSE [err |-> IF statFail THEN "ENOENT" ELSE "OK", stat |-> TRUE]

SysCommonHandler_Getattr(pid) ==
    [err |-> "OK", stat |-> FALSE, uid |-> 0, gid |-> 0]

SysCommonHandler_Open(flags, isOpen, openFail) ==
    [err |-> "OK", ionodeOpen |-> isOpen, opened |-> FALSE]

SysCommonHandler_Close(isOpen) == [err |-> "OK", ionodeOpen |-> isOpen]

SysCommonHandler_Read(C, H, pid, size, off, ioFail) ==
    [n |-> 0, err |-> "OK", data |-> <<>>, cntrs |-> C, host |-> H, hostRead |-> FALSE]

SysCommonHandler_Write(C, H, pid, buf) ==
    [n |-> 0, err |-> "OK", cntrs |-> C, host |-> H]

\* A handler of the repository that virtualizes ownership: its Getattr returns
\* a stat with the uid and gid the container is to see; its other methods are
\* the common handler's.
OwnerHandler_Getattr(pid) ==
    [err |-> "OK", stat |-> TRUE, uid |-> 1000, gid |-> 1000]

\* ------------------------------------------------------------ handler registry

BinfmtRegisterPath == "/proc/sys/fs/binfmt_misc/register"
CommonPath == "/proc/sys/kernel/hostname"
OwnerPath == "/proc/sys/kernel/ostype"
OrphanPath == "/proc/orphan"

\* The nodes of the adapter: one per handler, and one no handler governs.
Nodes == {PanicOopsPath, BinfmtRegisterPath, CommonPath, OwnerPath, OrphanPath}

\* domain.HandlerService.LookupHandler: the handler registered for the node's path.
LookupHandler(path) ==
    CASE path = PanicOopsPath -> [ok |-> TRUE, name |-> "kernelPanicOops"]
      [] path = BinfmtRegisterPath -> [ok |-> TRUE, name |-> "fsBinfmtRegister"]
      [] path = CommonPath -> [ok |-> TRUE, name |-> "commonHandler"]
      [] path = OwnerPath -> [ok |-> TRUE, name |-> "ownerHandler"]
      [] OTHER -> [ok |-> FALSE, name |-> "none"]

\* domain.HandlerService.FindHandler: whether a handler of that name is registered.
FindHandler(name) ==
    name \in {"kernelPanicOops", "fsBinfmtRegister", "commonHandler", "ownerHandler"}

\* The dynamic dispatch of handler.Lookup, Getattr, Open, Close, Read and Write.
Handler_Lookup(h, pid, statFail) ==
    CASE h = "kernelPanicOops" -> KernelPanicOopsHandler_Lookup(pid, statFail)
      [] h = "fsBinfmtRegister" -> FsBinfmtRegisterHandler_Lookup(pid, statFail)
      [] OTHER -> SysCommonHandler_Lookup(pid, statFail)

Handler_Getattr(h, pid) ==
    CASE h = "kernelPanicOops" -> KernelPanicOopsHandler_Getattr(pid, FindHandler("commonHandler"))
      [] h = "fsBinfmtRegister" -> FsBinfmtRegisterHandler_Getattr(pid)
      [] h = "ownerHandler" -> OwnerHandler_Getattr(pid)
      [] OTHER -> SysCommonHandler_Getattr(pid)

Handler_Open(h, flags, isOpen, openFail) ==
    CASE h = "kernelPanicOops" -> KernelPanicOopsHandler_Open(flags, isOpen, openFail)
      [] h = "fsBinfmtRegister" -> FsBinfmtRegisterHandler_Open(flags, isOpen, openFail)
      [] OTHER -> SysCommonHandler_Open(flags, isOpen, openFail)

Handler_Close(h, isOpen) ==
    CASE h = "kernelPanicOops" -> KernelPanicOopsHandler_Close(isOpen)
      [] h = "fsBinfmtRegister" -> FsBinfmtRegisterHandler_Close(isOpen)
      [] OTHER -> SysCommonHandler_Close(isOpen)

Handler_Read(h, C, H, pid, size, off, ioFail) ==
    CASE h = "kernelPanicOops" -> KernelPanicOopsHandler_Read(C, H, pid, size, off, ioFail)
      [] h = "fsBinfmtRegister" -> FsBinfmtRegisterHandler_Read(C, H, pid, size, off, ioFail)
      [] OTHER -> SysCommonHandler_Read(C, H, pid, size, off, ioFail)

Handler_Write(h, C, H, pid, buf) ==
    CASE h = "kernelPanicOops" -> KernelPanicOopsHandler_Write(C, H, pid, buf)
      [] h = "fsBinfmtRegister" -> FsBinfmtRegisterHandler_Write(C, H, pid, buf)
      [] OTHER -> SysCommonHandler_Write(C, H, pid, buf)

\* ------------------------------------------------------------ fuse.File (adapter)
\* Each adapter method is an operator from the node's path, the state it reads
\* and the request to the reply (err, and the response fields) and the state
\* the handler leaves behind.

\* File.Attr: a copy of the attributes cached for the node at lookup.
File_Attr(A) == [err |-> "OK", attr |-> A]

\* A mutant of File.Getattr: the reply shares the node's attributes, so the
\* override lands in f.attr.
File_Getattr_Shared(f, A, pid) ==
    LET lh == LookupHandler(f)
        r  == Handler_Getattr(lh.name, pid)
        B  == IF r.stat THEN [A EXCEPT !.uid = r.uid, !.gid = r.gid] ELSE A
    IN  IF ~lh.ok
        THEN [err |-> "NoHandler", herr |-> "NoHandler", attr |-> <<>>, stat |-> FALSE,
              calls |-> 0, fattr |-> A]
        ELSE IF r.err # "OK"
        THEN [err |-> r.err, herr |-> r.err, attr |-> <<>>, stat |-> FALSE,
              calls |-> 1, fattr |-> A]
        ELSE [err |-> "OK", herr |-> "OK", attr |-> B, stat |-> r.stat, calls |-> 1,
              fattr |-> B]

\* File.Getattr: a copy of the cached attributes, its uid and gid replaced by
\* the stat's when the handler returns one. f.attr itself is not assigned.
File_Getattr(f, A, pid) ==
    LET lh == LookupHandler(f)
        r  == Handler_Getattr(lh.name, pid)
    IN  IF ~lh.ok
        THEN [err |-> "NoHandler", herr |-> "NoHandler", attr |-> <<>>, stat |-> FALSE,
              calls |-> 0, fattr |-> A]
        ELSE IF r.err # "OK"
        THEN [err |-> r.err, herr |-> r.err, attr |-> <<>>, stat |-> FALSE,
              calls |-> 1, fattr |-> A]
        ELSE [err |-> "OK", herr |-> "OK",
              attr |-> IF r.stat THEN [A EXCEPT !.uid = r.uid, !.gid = r.gid] ELSE A,
              stat |-> r.stat, calls |-> 1, fattr |-> A]

\* A mutant of File.Open: direct I/O is asked for read-only opens alone.
File_Open_DirectOnRead(f, flags, pid, isOpen, openFail) ==
    LET lh == LookupHandler(f)
        r  == Handler_Open(lh.name, flags, isOpen, openFail)
    IN  IF ~lh.ok
        THEN [err |-> "NoHandler", herr |-> "NoHandler", openFlags |-> flags,
              ionodeOpen |-> isOpen, opened |-> FALSE, handle |-> FALSE, directIO |-> FALSE,
              calls |-> 0]
        ELSE IF r.err \notin {"OK", "EOF"}
        THEN [err |-> r.err, herr |-> r.err, openFlags |-> flags,
              ionodeOpen |-> r.ionodeOpen, opened |-> r.opened, handle |-> FALSE,
              directIO |-> FALSE, calls |-> 1]
        ELSE [err |-> "OK", herr |-> r.err, openFlags |-> flags,
              ionodeOpen |-> r.ionodeOpen, opened |-> r.opened, handle |-> TRUE,
              directIO |-> flags = O_RDONLY, calls |-> 1]

\* File.Open: the request's flags are set on the ionode, the handler's Open
\* runs, and on success the node is returned as the handle with direct I/O set.
File_Open(f, flags, pid, isOpen, openFail) ==
    LET lh == LookupHandler(f)
        r  == Handler_Open(lh.name, flags, isOpen, openFail)
    IN  IF ~lh.ok
        THEN [err |-> "NoHandler", herr |-> "NoHandler", openFlags |-> flags,
              ionodeOpen |-> isOpen, opened |-> FALSE, handle |-> FALSE, directIO |-> FALSE,
              calls |-> 0]
        ELSE IF r.err \notin {"OK", "EOF"}
        THEN [err |-> r.err, herr |-> r.err, openFlags |-> flags,
              ionodeOpen |-> r.ionodeOpen, opened |-> r.opened, handle |-> FALSE,
              directIO |-> FALSE, calls |-> 1]
        ELSE [err |-> "OK", herr |-> r.err, openFlags |-> flags,
              ionodeOpen |-> r.ionodeOpen, opened |-> r.opened, handle |-> TRUE,
              directIO |-> TRUE, calls |-> 1]

\* File.Release: the handler's Close, its error returned as is.
File_Release(f, isOpen) ==
    LET lh == LookupHandler(f)
        r  == Handler_Close(lh.name, isOpen)
    IN  IF ~lh.ok
        THEN [err |-> "NoHandler", herr |-> "NoHandler", ionodeOpen |-> isOpen, calls |-> 0]
        ELSE [err |-> r.err, herr |-> r.err, ionodeOpen |-> r.ionodeOpen, calls |-> 1]

\* A mutant of File.Read: every error of the handler ends the read like
\* end-of-stream does.
File_Read_ErrorsAsEOF(f, C, H, pid, size, off, ioFail) ==
    LET lh == LookupHandler(f)
        r  == Handler_Read(lh.name, C, H, pid, size, off, ioFail)
    IN  IF ~lh.ok
        THEN [err |-> "NoHandler", herr |-> "NoHandler", n |-> 0, data |-> <<>>,
              cntrs |-> C, host |-> H, hostRead |-> FALSE, calls |-> 0]
        ELSE [err |-> "OK", herr |-> r.err, n |-> r.n, data |-> SubSeq(r.data, 1, r.n),
              cntrs |-> r.cntrs, host |-> r.host, hostRead |-> r.hostRead, calls |-> 1]

\* File.Read: the handler's Read into a buffer of req.Size bytes; an error
\* other than io.EOF is returned, else the first n bytes are the reply.
File_Read(f, C, H, pid, size, off, ioFail) ==
    LET lh == LookupHandler(f)
        r  == Handler_Read(lh.name, C, H, pid, size, off, ioFail)
    IN  IF ~lh.ok
        THEN [err |-> "NoHandler", herr |-> "NoHandler", n |-> 0, data |-> <<>>,
              cntrs |-> C, host |-> H, hostRead |-> FALSE, calls |-> 0]
        ELSE IF r.err \notin {"OK", "EOF"}
        THEN [err |-> r.err, herr |-> r.err, n |-> r.n, data |-> <<>>,
              cntrs |-> r.cntrs, host |-> r.host, hostRead |-> r.hostRead, calls |-> 1]
        ELSE [err |-> "OK", herr |-> r.err, n |-> r.n, data |-> SubSeq(r.data, 1, r.n),
              cntrs |-> r.cntrs, host |-> r.host, hostRead |-> r.hostRead, calls |-> 1]

\* File.Write: the handler's Write; an error other than io.EOF is returned,
\* else resp.Size is the handler's byte count.
File_Write(f, C, H, pid, buf) ==
    LET lh == LookupHandler(f)
        r  == Handler_Write(lh.name, C, H, pid, buf)
    IN  IF ~lh.ok
        THEN [err |-> "NoHandler", herr |-> "NoHandler", n |-> 0, cntrs |-> C, host |-> H,
              calls |-> 0]
        ELSE IF r.err \notin {"OK", "EOF"}
        THEN [err |-> r.err, herr |-> r.err, n |-> 0, cntrs |-> r.cntrs, host |-> r.host,
              calls |-> 1]
        ELSE [err |-> "OK", herr |-> r.err, n |-> r.n, cntrs |-> r.cntrs, host |-> r.host,
              calls |-> 1]

\* A mutant of Setattr: an accepted size change is applied to the cached attributes.
File_Setattr_ApplySize(A, valid, size) ==
    IF "size" \in valid
    THEN [err |-> "OK", attr |-> [A EXCEPT !.size = size]]
    ELSE [err |-> "EPERM", attr |-> A]

\* A mutant of Forget: the whole table is dropped.
File_Forget_All(DB, f) ==
    IF f \notin DOMAIN DB THEN DB ELSE [g \in {} |-> DB[g]]

\* File.Forget, between Lock and Unlock: nothing when the table has no entry
\* for the node's path, else that entry is deleted.
File_Forget(DB, f) ==
    IF f \notin DOMAIN DB THEN DB ELSE [g \in DOMAIN DB \ {f} |-> DB[g]]

\* File.Setattr: accepted (and ignored) when the request's valid mask has the
\* size bit, EPERM otherwise.
File_Setattr(A, valid, size) ==
    IF "size" \in valid
    THEN [err |-> "OK", attr |-> A]
    ELSE [err |-> "EPERM", attr |-> A]

\* ------------------------------------------------------------------ requests

\* The size of the buffer of a read request; the kernel's is a page, larger
\* than any value of this resource.
ReadSize == 4

ReadOffsets == {0, 1}

\* The flags of an open request: read-only, write-only, read-write, and
\* write-only with O_APPEND.
OpenFlagsIn == {O_RDONLY, O_WRONLY, O_RDWR, 1025}

\* The buffers of a write request: "0", " 1\n", "5", "-1" and "x".
WriteBufs ==
    {<<"0">>, <<" ", "1", NL>>, <<"5">>, <<"-", "1">>, <<"x">>}

\* The valid masks of a setattr request.
SetattrValids == SUBSET {"size", "mode"}

SetattrSizes == {4}

\* The nodes the requests of Spec address.
SpecNodes == {PanicOopsPath}

InitAttr == [size |-> 0, mode |-> 420, uid |-> 0, gid |-> 0]

NoResp ==
    [op |-> "none", node |-> "", pid |-> 0, flags |-> 0, off |-> 0, buf |-> <<>>,
     valid |-> {}, n |-> 0, herr |-> "OK", err |-> "OK", data |-> <<>>,
     hostRead |-> FALSE, opened |-> FALSE, handle |-> FALSE, directIO |-> FALSE,
     stat |-> FALSE, attr |-> <<>>, calls |-> 0, hostFailed |-> FALSE,
     statFailed |-> FALSE]

NoHist == [kind |-> "none", val |-> <<>>]

Idle ==
    [pc |-> "idle", pid |-> 0, cntr |-> NoContainer, val |-> <<>>, n |-> 0,
     node |-> "", flags |-> 0, seen |-> <<>>]

NoReqs == [r \in 1..MaxReqs |-> Idle]

NoLog == [written |-> [i \in Inodes |-> {}], stored |-> [i \in Inodes |-> {}]]

\* The node NewFile makes for a path, as the table refers to it.
NewFile(path) == [path |-> path, handler |-> LookupHandler(path).name]

\* The node table that holds the nodes of the paths in S.
TableOf(S) == [f \in S |-> NewFile(f)]

Init ==
    /\ hostFile = <<"0", NL>>
    /\ cntrs = [i \in {} |-> EmptyCache]
    /\ openFlags = [f \in Nodes |-> O_RDONLY]
    /\ ionodeOpen = [f \in Nodes |-> FALSE]
    /\ handles = [f \in Nodes |-> 0]
    /\ attr = [f \in Nodes |-> InitAttr]
    /\ resp = NoResp
    /\ hist = [i \in Inodes |-> NoHist]
    /\ reqs = NoReqs
    /\ log = NoLog
    /\ nodeDB = TableOf(SpecNodes)
    /\ lock = 0

\* ------------------------------------------------------------------- actions

\* The host's administrator (or kernel) changes the host value.
HostChange ==
    /\ \E c \in HostContents \ {hostFile} : hostFile' = c
    /\ resp' = [NoResp EXCEPT !.op = "HostChange"]
    /\ UNCHANGED <<cntrs, openFlags, ionodeOpen, handles, attr, hist, reqs, log, nodeDB, lock>>

\* The container manager registers a container with the state store.
Register(ino) ==
    /\ ino \notin DOMAIN cntrs
    /\ cntrs' = [i \in DOMAIN cntrs \cup {ino} |-> IF i = ino THEN EmptyCache ELSE cntrs[i]]
    /\ resp' = [NoResp EXCEPT !.op = "Register"]
    /\ UNCHANGED <<hostFile, openFlags, ionodeOpen, handles, attr, hist, reqs, log, nodeDB, lock>>

\* handler.Lookup, called by the directory's lookup.
Lookup(f, pid) ==
    \E statFail \in BOOLEAN :
        LET r == Handler_Lookup(LookupHandler(f).name, pid, statFail)
        IN  /\ resp' = [NoResp EXCEPT !.op = "Lookup", !.node = f, !.pid = pid,
                                      !.herr = r.err, !.err = r.err, !.stat = r.stat,
                                      !.statFailed = r.stat /\ statFail, !.calls = 1]
            /\ UNCHANGED <<hostFile, cntrs, openFlags, ionodeOpen, handles, attr, hist,
                           reqs, log, nodeDB, lock>>

Attr(f) ==
    LET r == File_Attr(attr[f])
    IN  /\ resp' = [NoResp EXCEPT !.op = "Attr", !.node = f, !.herr = r.err, !.err = r.err,
                                  !.attr = r.attr]
        /\ UNCHANGED <<hostFile, cntrs, openFlags, ionodeOpen, handles, attr, hist,
                       reqs, log, nodeDB, lock>>

\* (No handler's Getattr reads req.Pid.)
Getattr(f) ==
    LET r == File_Getattr(f, attr[f], 0)
    IN  /\ attr' = [attr EXCEPT ![f] = r.fattr]
        /\ resp' = [NoResp EXCEPT !.op = "Getattr", !.node = f,
                                  !.herr = r.herr, !.err = r.err, !.attr = r.attr,
                                  !.stat = r.stat, !.calls = r.calls]
        /\ UNCHANGED <<hostFile, cntrs, openFlags, ionodeOpen, handles, hist,
                       reqs, log, nodeDB, lock>>

\* (No handler's Open reads req.Pid.)
Open(f) ==
    /\ handles[f] < MaxHandles
    /\ \E flags \in OpenFlagsIn, openFail \in BOOLEAN :
        LET r == File_Open(f, flags, 0, ionodeOpen[f], openFail)
        IN  /\ openFlags' = [openFlags EXCEPT ![f] = r.openFlags]
            /\ ionodeOpen' = [ionodeOpen EXCEPT ![f] = r.ionodeOpen]
            /\ handles' = [handles EXCEPT ![f] = IF r.handle THEN @ + 1 ELSE @]
            /\ resp' = [NoResp EXCEPT !.op = "Open", !.node = f,
                                      !.flags = flags, !.herr = r.herr, !.err = r.err,
                                      !.opened = r.opened, !.handle = r.handle,
                                      !.directIO = r.directIO, !.calls = r.calls]
    /\ UNCHANGED <<hostFile, cntrs, attr, hist, reqs, log, nodeDB, lock>>

Release(f) ==
    /\ handles[f] > 0
    /\ LET r == File_Release(f, ionodeOpen[f])
       IN  /\ ionodeOpen' = [ionodeOpen EXCEPT ![f] = r.ionodeOpen]
           /\ handles' = [handles EXCEPT ![f] = @ - 1]
           /\ resp' = [NoResp EXCEPT !.op = "Release", !.node = f,
                                     !.herr = r.herr, !.err = r.err, !.calls = r.calls]
    /\ UNCHANGED <<hostFile, cntrs, openFlags, attr, hist, reqs, log, nodeDB, lock>>

Read(f, pid) ==
    /\ handles[f] > 0
    /\ \E off \in ReadOffsets, ioFail \in BOOLEAN :
        LET r == File_Read(f, cntrs, hostFile, pid, ReadSize, off, ioFail)
            c == ContainerLookupByPid(cntrs, pid)
            first == /\ c # NoContainer
                     /\ hist[c].kind = "none"
                     /\ off = 0
                     /\ r.herr = "OK"
        IN  /\ cntrs' = r.cntrs
            /\ hostFile' = r.host
            /\ hist' = IF first THEN [hist EXCEPT ![c] = [kind |-> "read", val |-> r.data]]
                       ELSE hist
            /\ resp' = [NoResp EXCEPT !.op = "Read", !.node = f, !.pid = pid, !.off = off,
                                      !.n = r.n, !.herr = r.herr, !.err = r.err,
                                      !.data = r.data, !.hostRead = r.hostRead,
                                      !.hostFailed = r.hostRead /\ ioFail,
                                      !.calls = r.calls]
    /\ UNCHANGED <<openFlags, ionodeOpen, handles, attr, reqs, log, nodeDB, lock>>

Write(f, pid) ==
    /\ handles[f] > 0
    /\ \E buf \in WriteBufs :
        LET r == File_Write(f, cntrs, hostFile, pid, buf)
            c == ContainerLookupByPid(cntrs, pid)
        IN  /\ cntrs' = r.cntrs
            /\ hostFile' = r.host
            /\ hist' = IF c # NoContainer /\ r.herr = "OK"
                       THEN [hist EXCEPT ![c] = [kind |-> "write", val |-> buf]]
                       ELSE hist
            /\ resp' = [NoResp EXCEPT !.op = "Write", !.node = f, !.pid = pid, !.buf = buf,
                                      !.n = r.n, !.herr = r.herr, !.err = r.err,
                                      !.calls = r.calls]
    /\ UNCHANGED <<openFlags, ionodeOpen, handles, attr, reqs, log, nodeDB, lock>>

Setattr(f) ==
    /\ \E valid \in SetattrValids, size \in SetattrSizes :
        LET r == File_Setattr(attr[f], valid, size)
        IN  /\ attr' = [attr EXCEPT ![f] = r.attr]
            /\ resp' = [NoResp EXCEPT !.op = "Setattr", !.node = f, !.valid = valid,
                                      !.herr = r.err, !.err = r.err]
    /\ UNCHANGED <<hostFile, cntrs, openFlags, ionodeOpen, handles, hist, reqs, log, nodeDB, lock>>

Next ==
    \/ HostChange
    \/ \E ino \in Inodes : Register(ino)
    \/ \E f \in SpecNodes, pid \in Pids : Lookup(f, pid)
    \/ \E f \in SpecNodes : Attr(f)
    \/ \E f \in SpecNodes : Getattr(f)
    \/ \E f \in SpecNodes : Open(f)
    \/ \E f \in SpecNodes : Release(f)
    \/ \E f \in SpecNodes, pid \in Pids : Read(f, pid)
    \/ \E f \in SpecNodes, pid \in Pids : Write(f, pid)
    \/ \E f \in SpecNodes : Setattr(f)

Spec == Init /\ [][Next]_vars

\* ------------------------------------------------- every node of the adapter
\* The requests of NodeSpec address whichever nodes the table holds: nodes of
\* each handler and a node no handler governs. One container is registered.

\* Nodes the table holds at one time in NodeSpec.
MaxNodes == 1

\* The processes of NodeSpec: one of the registered container and one whose
\* pid namespace cannot be resolved.
NodePids == {11, 99}

\* The directory's lookup makes the node of a path (NewFile, with a fresh
\* ionode and the attributes of the lookup) and enters it in the table.
NodeCreate(f) ==
    /\ lock = 0
    /\ f \notin DOMAIN nodeDB
    /\ Cardinality(DOMAIN nodeDB) < MaxNodes
    /\ nodeDB' = [g \in DOMAIN nodeDB \cup {f} |-> IF g = f THEN NewFile(f) ELSE nodeDB[g]]
    /\ openFlags' = [openFlags EXCEPT ![f] = O_RDONLY]
    /\ ionodeOpen' = [ionodeOpen EXCEPT ![f] = FALSE]
    /\ attr' = [attr EXCEPT ![f] = InitAttr]
    /\ resp' = [NoResp EXCEPT !.op = "NodeCreate", !.node = f]
    /\ UNCHANGED <<hostFile, cntrs, handles, hist, reqs, log, lock>>

\* File.Forget, which the kernel sends for a node it holds no handle on. The
\* forgotten node and its ionode are out of reach from then on.
Forget(f) ==
    /\ handles[f] = 0
    /\ lock = 0
    /\ nodeDB' = File_Forget(nodeDB, f)
    /\ openFlags' = [openFlags EXCEPT ![f] = O_RDONLY]
    /\ ionodeOpen' = [ionodeOpen EXCEPT ![f] = FALSE]
    /\ resp' = [NoResp EXCEPT !.op = "Forget", !.node = f]
    /\ UNCHANGED <<hostFile, cntrs, handles, attr, hist, reqs, log, lock>>

NodeInit ==
    /\ hostFile = <<"0", NL>>
    /\ cntrs = [i \in {1} |-> EmptyCache]
    /\ openFlags = [f \in Nodes |-> O_RDONLY]
    /\ ionodeOpen = [f \in Nodes |-> FALSE]
    /\ handles = [f \in Nodes |-> 0]
    /\ attr = [f \in Nodes |-> InitAttr]
    /\ resp = NoResp
    /\ hist = [i \in Inodes |-> NoHist]
    /\ reqs = NoReqs
    /\ log = NoLog
    /\ nodeDB = TableOf({})
    /\ lock = 0

NodeNext ==
    \/ \E f \in Nodes : NodeCreate(f)
    \/ \E f \in Nodes, pid \in NodePids : Lookup(f, pid)
    \/ \E f \in DOMAIN nodeDB : Attr(f)
    \/ \E f \in DOMAIN nodeDB : Getattr(f)
    \/ \E f \in DOMAIN nodeDB : Open(f)
    \/ \E f \in DOMAIN nodeDB : Release(f)
    \/ \E f \in DOMAIN nodeDB, pid \in NodePids : Read(f, pid)
    \/ \E f \in DOMAIN nodeDB, pid \in NodePids : Write(f, pid)
    \/ \E f \in DOMAIN nodeDB : Setattr(f)
    \/ \E f \in Nodes : Forget(f)

NodeSpec == NodeInit /\ [][NodeNext]_vars

\* --------------------------------------------- interleaved Read and Write
\* The FUSE server runs each request in its own goroutine, so the handler's
\* Read and Write interleave at their accesses to the state store and to the
\* host file. A request in flight occupies a slot of reqs; a finished one
\* leaves its reply in resp. log records, per container, the values the
\* Writes stored and all the values ever stored under the resource's key.

Reply(op, pid, off, buf, n, e, data, hostRead) ==
    [NoResp EXCEPT !.op = op, !.node = PanicOopsPath, !.pid = pid, !.off = off,
                   !.buf = buf, !.n = n, !.herr = e,
                   !.err = IF e = "EOF" THEN "OK" ELSE e,
                   !.data = data, !.hostRead = hostRead]

ConcInit ==
    /\ hostFile = <<"0", NL>>
    /\ cntrs = [i \in Inodes |-> EmptyCache]
    /\ openFlags = [f \in Nodes |-> O_RDONLY]
    /\ ionodeOpen = [f \in Nodes |-> f = PanicOopsPath]
    /\ handles = [f \in Nodes |-> IF f = PanicOopsPath THEN 1 ELSE 0]
    /\ attr = [f \in Nodes |-> InitAttr]
    /\ resp = NoResp
    /\ hist = [i \in Inodes |-> NoHist]
    /\ reqs = NoReqs
    /\ log = NoLog
    /\ nodeDB = TableOf({PanicOopsPath})
    /\ lock = 0

\* Read up to the cache lookup: the offset check, the container lookup and
\* cntr.Data(). A hit is answered at once; a miss goes on to the host.
ReadBegin(r, pid, off) ==
    /\ reqs[r].pc = "idle"
    /\ LET cntr == ContainerLookupByPid(cntrs, pid)
           d    == Data(cntrs[cntr], PanicOopsPath, PanicOopsName)
           res  == copyResultBuffer(ReadSize, d.val \o <<NL>>)
       IN  IF off > 0
           THEN /\ resp' = Reply("Read", pid, off, <<>>, 0, "EOF", <<>>, FALSE)
                /\ UNCHANGED reqs
           ELSE IF cntr = NoContainer
           THEN /\ resp' = Reply("Read", pid, off, <<>>, 0, "ContainerNotFound", <<>>, FALSE)
                /\ UNCHANGED reqs
           ELSE IF d.ok
           THEN /\ resp' = Reply("Read", pid, off, <<>>, res.n, "OK", res.data, FALSE)
                /\ UNCHANGED reqs
           ELSE /\ reqs' = [reqs EXCEPT ![r] = [Idle EXCEPT !.pc = "readHost", !.pid = pid,
                                                            !.cntr = cntr]]
                /\ UNCHANGED resp
    /\ UNCHANGED <<hostFile, cntrs, openFlags, ionodeOpen, handles, attr, hist, log, nodeDB, lock>>

\* Read on a miss: n.ReadLine() and the format check of what it returned.
ReadHost(r, ioFail) ==
    /\ reqs[r].pc = "readHost"
    /\ LET rl == ReadLine(hostFile, ioFail)
       IN  IF rl.err \notin {"OK", "EOF"}
           THEN /\ resp' = Reply("Read", reqs[r].pid, 0, <<>>, 0, "EIO", <<>>, TRUE)
                /\ reqs' = [reqs EXCEPT ![r] = Idle]
           ELSE IF ~Atoi(rl.line).ok
           THEN /\ resp' = Reply("Read", reqs[r].pid, 0, <<>>, 0, "EINVAL", <<>>, TRUE)
                /\ reqs' = [reqs EXCEPT ![r] = Idle]
           ELSE /\ reqs' = [reqs EXCEPT ![r].pc = "readSeed", ![r].val = rl.line]
                /\ UNCHANGED resp
    /\ UNCHANGED <<hostFile, cntrs, openFlags, ionodeOpen, handles, attr, hist, log, nodeDB, lock>>

\* Read on a miss: cntr.SetData() of the host value, which is then returned.
ReadSeed(r) ==
    /\ reqs[r].pc = "readSeed"
    /\ LET c   == reqs[r].cntr
           res == copyResultBuffer(ReadSize, reqs[r].val \o <<NL>>)
       IN  /\ cntrs' = [cntrs EXCEPT ![c] = SetData(@, PanicOopsPath, PanicOopsName, reqs[r].val)]
           /\ log' = [log EXCEPT !.stored[c] = @ \cup {reqs[r].val}]
           /\ resp' = Reply("Read", reqs[r].pid, 0, <<>>, res.n, "OK", res.data, TRUE)
           /\ reqs' = [reqs EXCEPT ![r] = Idle]
    /\ UNCHANGED <<hostFile, openFlags, ionodeOpen, handles, attr, hist, nodeDB, lock>>

\* Write up to the container lookup: trimming, parsing, the range check.
WriteBegin(r, pid, buf) ==
    /\ reqs[r].pc = "idle"
    /\ LET newVal == TrimSpace(buf)
           parsed == Atoi(newVal)
           cntr   == ContainerLookupByPid(cntrs, pid)
       IN  IF ~parsed.ok \/ parsed.val < 0 \/ parsed.val > 1
           THEN /\ resp' = Reply("Write", pid, 0, buf, 0, "EINVAL", <<>>, FALSE)
                /\ UNCHANGED reqs
           ELSE IF cntr = NoContainer
           THEN /\ resp' = Reply("Write", pid, 0, buf, 0, "ContainerNotFound", <<>>, FALSE)
                /\ UNCHANGED reqs
           ELSE /\ reqs' = [reqs EXCEPT ![r] = [Idle EXCEPT !.pc = "writeStore", !.pid = pid,
                                                            !.cntr = cntr, !.val = newVal,
                                                            !.n = Len(buf)]]
                /\ UNCHANGED resp
    /\ UNCHANGED <<hostFile, cntrs, openFlags, ionodeOpen, handles, attr, hist, log, nodeDB, lock>>

\* Write: cntr.SetData() of the new value, then the return of len(buf).
WriteStore(r) ==
    /\ reqs[r].pc = "writeStore"
    /\ LET c == reqs[r].cntr
       IN  /\ cntrs' = [cntrs EXCEPT ![c] = SetData(@, PanicOopsPath, PanicOopsName, reqs[r].val)]
           /\ log' = [log EXCEPT !.written[c] = @ \cup {reqs[r].val},
                                 !.stored[c] = @ \cup {reqs[r].val}]
           /\ resp' = Reply("Write", reqs[r].pid, 0, <<>>, reqs[r].n, "OK", <<>>, FALSE)
           /\ reqs' = [reqs EXCEPT ![r] = Idle]
    /\ UNCHANGED <<hostFile, openFlags, ionodeOpen, handles, attr, hist, nodeDB, lock>>

ConcNext ==
    \/ \E r \in 1..MaxReqs, pid \in Pids, off \in ReadOffsets : ReadBegin(r, pid, off)
    \/ \E r \in 1..MaxReqs, ioFail \in BOOLEAN : ReadHost(r, ioFail)
    \/ \E r \in 1..MaxReqs : ReadSeed(r)
    \/ \E r \in 1..MaxReqs, pid \in Pids, buf \in WriteBufs : WriteBegin(r, pid, buf)
    \/ \E r \in 1..MaxReqs : WriteStore(r)

ConcSpec == ConcInit /\ [][ConcNext]_vars

\* ------------------------------------------------------ interleaved Forget
\* File.Forget of each request runs in its own goroutine. Its steps are
\* taking the service's lock, looking the node's path up in the table,
\* deleting the entry, and the deferred release of the lock.

ForgetInit ==
    /\ hostFile = <<"0", NL>>
    /\ cntrs = [i \in Inodes |-> EmptyCache]
    /\ openFlags = [f \in Nodes |-> O_RDONLY]
    /\ ionodeOpen = [f \in Nodes |-> FALSE]
    /\ handles = [f \in Nodes |-> 0]
    /\ attr = [f \in Nodes |-> InitAttr]
    /\ resp = NoResp
    /\ hist = [i \in Inodes |-> NoHist]
    /\ reqs = NoReqs
    /\ log = NoLog
    /\ nodeDB = TableOf(Nodes)
    /\ lock = 0

\* f.service.Lock(): blocks while another request holds the lock. (seen is
\* history: the table as the request finds it on taking the lock.)
ForgetLock(r, f) ==
    /\ reqs[r].pc = "idle"
    /\ lock = 0
    /\ lock' = r
    /\ reqs' = [reqs EXCEPT ![r] = [Idle EXCEPT !.pc = "forgetCheck", !.node = f,
                                                !.seen = nodeDB]]
    /\ UNCHANGED <<hostFile, cntrs, openFlags, ionodeOpen, handles, attr, resp, hist,
                   log, nodeDB>>

\* The test for the path's entry: without one the method returns.
ForgetCheck(r) ==
    /\ reqs[r].pc = "forgetCheck"
    /\ reqs' = [reqs EXCEPT ![r].pc = IF reqs[r].node \in DOMAIN nodeDB
                                      THEN "forgetDelete" ELSE "forgetUnlock"]
    /\ UNCHANGED <<hostFile, cntrs, openFlags, ionodeOpen, handles, attr, resp, hist,
                   log, nodeDB, lock>>

\* delete(f.service.nodeDB, f.path).
ForgetDelete(r) ==
    /\ reqs[r].pc = "forgetDelete"
    /\ nodeDB' = File_Forget(nodeDB, reqs[r].node)
    /\ reqs' = [reqs EXCEPT ![r].pc = "forgetUnlock"]
    /\ UNCHANGED <<hostFile, cntrs, openFlags, ionodeOpen, handles, attr, resp, hist,
                   log, lock>>

\* The deferred f.service.Unlock(), and the return.
ForgetUnlock(r) ==
    /\ reqs[r].pc = "forgetUnlock"
    /\ lock' = 0
    /\ resp' = [NoResp EXCEPT !.op = "Forget", !.node = reqs[r].node]
    /\ reqs' = [reqs EXCEPT ![r] = Idle]
    /\ UNCHANGED <<hostFile, cntrs, openFlags, ionodeOpen, handles, attr, hist,
                   log, nodeDB>>

ForgetNext ==
    \/ \E f \in Nodes : NodeCreate(f)
    \/ \E r \in 1..MaxReqs, f \in Nodes : ForgetLock(r, f)
    \/ \E r \in 1..MaxReqs : ForgetCheck(r)
    \/ \E r \in 1..MaxReqs : ForgetDelete(r)
    \/ \E r \in 1..MaxReqs : ForgetUnlock(r)

ForgetSpec == ForgetInit /\ [][ForgetNext]_vars

\* -------------------------------------------------------- interleaved Open
\* File.Open of each request runs in its own goroutine. It first stores the
\* request's flags in the node's ionode, which all the requests on the node
\* share, and then calls the handler, which reads the flags back from the
\* ionode. (The kernel's handles are not counted here.)

OpenInit ==
    /\ hostFile = <<"0", NL>>
    /\ cntrs = [i \in Inodes |-> EmptyCache]
    /\ openFlags = [f \in Nodes |-> O_RDONLY]
    /\ ionodeOpen = [f \in Nodes |-> FALSE]
    /\ handles = [f \in Nodes |-> 0]
    /\ attr = [f \in Nodes |-> InitAttr]
    /\ resp = NoResp
    /\ hist = [i \in Inodes |-> NoHist]
    /\ reqs = NoReqs
    /\ log = NoLog
    /\ nodeDB = TableOf({PanicOopsPath, CommonPath})
    /\ lock = 0

\* f.ionode.SetOpenFlags(int(req.Flags)).
OpenSetFlags(r, f, flags) ==
    /\ reqs[r].pc = "idle"
    /\ openFlags' = [openFlags EXCEPT ![f] = flags]
    /\ reqs' = [reqs EXCEPT ![r] = [Idle EXCEPT !.pc = "openHandler", !.node = f,
                                                !.flags = flags]]
    /\ UNCHANGED <<hostFile, cntrs, ionodeOpen, handles, attr, resp, hist, log,
                   nodeDB, lock>>

\* The handler's lookup and its Open, which decides on n.OpenFlags(), and the
\* reply.
OpenHandler(r, openFail) ==
    /\ reqs[r].pc = "openHandler"
    /\ LET f == reqs[r].node
           a == File_Open(f, openFlags[f], 0, ionodeOpen[f], openFail)
       IN  /\ ionodeOpen' = [ionodeOpen EXCEPT ![f] = a.ionodeOpen]
           /\ resp' = [NoResp EXCEPT !.op = "Open", !.node = f, !.flags = reqs[r].flags,
                                     !.herr = a.herr, !.err = a.err, !.opened = a.opened,
                                     !.handle = a.handle, !.directIO = a.directIO,
                                     !.calls = a.calls]
    /\ reqs' = [reqs EXCEPT ![r] = Idle]
    /\ UNCHANGED <<hostFile, cntrs, openFlags, handles, attr, hist, log, nodeDB, lock>>

OpenNext ==
    \/ \E r \in 1..MaxReqs, f \in DOMAIN nodeDB, flags \in OpenFlagsIn : OpenSetFlags(r, f, flags)
    \/ \E r \in 1..MaxReqs, openFail \in BOOLEAN : OpenHandler(r, openFail)

OpenSpec == OpenInit /\ [][OpenNext]_vars

\* ------------------------------------------------- vocabulary of the claims

PanicKey == Key(PanicOopsPath, PanicOopsName)

\* The registered container a pid belongs to (NoContainer when there is none).
ContainerOf(pid) ==
    IF FindPidNsInode(pid) \in DOMAIN cntrs THEN FindPidNsInode(pid) ELSE NoContainer

\* The value a container holds for the resource, <<>> when it holds none.
HasValue(C, c) == c \in DOMAIN C /\ PanicKey \in DOMAIN C[c]

\* The host value: the text of the host file before its line terminator.
HostValue(content) ==
    LET ends == {i \in 1..Len(content) : content[i] = NL}
    IN  IF ends = {} THEN content
        ELSE SubSeq(content, 1, (CHOOSE i \in ends : \A j \in ends : i <= j) - 1)

\* A buffer with its surrounding white space left out.
StripWs(buf) ==
    LET ink == {i \in 1..Len(buf) : buf[i] \notin {" ", "\t", NL, "\r"}}
    IN  IF ink = {} THEN <<>>
        ELSE SubSeq(buf, CHOOSE i \in ink : \A j \in ink : i <= j,
                         CHOOSE i \in ink : \A j \in ink : j <= i)

\* The buffers that hold, white space aside, the integer 0 or the integer 1.
IsOopsValue(buf) ==
    LET v == StripWs(buf)
        d == IF v # <<>> /\ v[1] \in {"+", "-"} THEN Tail(v) ELSE v
    IN  /\ d # <<>>
        /\ \A i \in 1..(Len(d) - 1) : d[i] = "0"
        /\ d[Len(d)] \in {"0", "1"}
        /\ ~(v[1] = "-" /\ d[Len(d)] = "1")

\* The texts of an integer: an optional sign, then decimal digits only.
IsIntegerText(v) ==
    LET d == IF v # <<>> /\ v[1] \in {"+", "-"} THEN Tail(v) ELSE v
    IN  /\ d # <<>>
        /\ \A i \in 1..Len(d) : d[i] \in {"0", "1", "2", "3", "4", "5", "6", "7", "8", "9"}

\* -------------------------------------------------------------------- claims

\* C1: a Read at offset 0 by a pid of a registered container whose cache has
\* no entry, when it succeeds, returns the host value of that moment followed
\* by a newline and leaves that value (without the newline) in the container's
\* cache; and as long as no Write has succeeded in the container, every Read
\* at offset 0 in it returns what that first Read returned, whatever the host
\* file holds by then.
C1_Step ==
    LET c == ContainerOf(resp'.pid)
    IN  (resp'.op = "Read" /\ resp'.off = 0 /\ c # NoContainer) =>
            /\ (~HasValue(cntrs, c) /\ resp'.herr = "OK") =>
                   /\ resp'.data = HostValue(hostFile) \o <<NL>>
                   /\ resp'.err = "OK"
                   /\ HasValue(cntrs', c)
                   /\ cntrs'[c][PanicKey] = HostValue(hostFile)
            /\ hist'[c].kind = "read" =>
                   /\ resp'.herr = "OK"
                   /\ resp'.data = hist'[c].val

C1_Isolation == [][C1_Step]_vars

\* C1 witness: a Read served from the cache seeded by the first Read, after
\* the host value has changed to something else.
C1_Witness ==
    /\ resp.op = "Read" /\ resp.herr = "OK" /\ ~resp.hostRead
    /\ ContainerOf(resp.pid) # NoContainer
    /\ hist[ContainerOf(resp.pid)].kind = "read"
    /\ resp.data # HostValue(hostFile) \o <<NL>>

\* C2: once a Write of a valid value has succeeded in a container, a Read at
\* offset 0 in that container (no other successful Write in between) succeeds
\* and returns the written text, surrounding white space left out, followed by
\* a single newline.
C2_WriteThenRead ==
    LET c == ContainerOf(resp.pid)
    IN  (resp.op = "Read" /\ resp.off = 0 /\ c # NoContainer /\ hist[c].kind = "write") =>
            /\ resp.herr = "OK"
            /\ resp.err = "OK"
            /\ resp.data = StripWs(hist[c].val) \o <<NL>>

\* C2 witness: a Read after a Write of " 1\n", whose white space was trimmed.
C2_Witness ==
    /\ resp.op = "Read" /\ resp.off = 0 /\ resp.herr = "OK"
    /\ ContainerOf(resp.pid) # NoContainer
    /\ hist[ContainerOf(resp.pid)] = [kind |-> "write", val |-> <<" ", "1", NL>>]

\* C3: a Write whose content is not the integer 0 or 1 returns EINVAL with 0
\* bytes written and leaves every container's stored values, and the record
\* of how they came about, as they were.
C3_Step ==
    (resp'.op = "Write" /\ ~IsOopsValue(resp'.buf)) =>
        /\ resp'.herr = "EINVAL"
        /\ resp'.err = "EINVAL"
        /\ resp'.n = 0
        /\ cntrs' = cntrs
        /\ hist' = hist

C3_InvalidWrite == [][C3_Step]_vars

\* C3 witness: a Write of "5" refused in a container that holds a value.
C3_Witness ==
    /\ resp.op = "Write" /\ resp.buf = <<"5">> /\ resp.herr = "EINVAL"
    /\ HasValue(cntrs, ContainerOf(resp.pid))

\* C5: a Write by a pid of one container leaves every other container's
\* record as it was, and what a Read at offset 0 by a pid of another container
\* returns is the same after the Write as before it.
C5_Step ==
    resp'.op = "Write" =>
        \A b \in DOMAIN cntrs :
            b # ContainerOf(resp'.pid) =>
                /\ b \in DOMAIN cntrs'
                /\ cntrs'[b] = cntrs[b]
                /\ \A p \in Pids :
                       FindPidNsInode(p) = b =>
                           File_Read(PanicOopsPath, cntrs', hostFile', p, ReadSize, 0, FALSE).data
                             = File_Read(PanicOopsPath, cntrs, hostFile, p, ReadSize, 0, FALSE).data

C5_CrossContainer == [][C5_Step]_vars

\* C5 witness: container A has stored a value by a Write while container B
\* holds a different value.
C5_Witness ==
    /\ resp.op = "Write" /\ resp.herr = "OK" /\ FindPidNsInode(resp.pid) = 1
    /\ HasValue(cntrs, 1) /\ HasValue(cntrs, 2)
    /\ cntrs[1][PanicKey] # cntrs[2][PanicKey]

\* C6: the host file changes only by the action outside the handler; no
\* Lookup, Getattr, Open, Read, Write or Release changes it.
C6_HostUntouched == [][hostFile' # hostFile => resp'.op = "HostChange"]_vars

\* C6 witness: a Write has stored a value that differs from the host's.
C6_Witness ==
    /\ resp.op = "Write" /\ resp.herr = "OK"
    /\ HasValue(cntrs, ContainerOf(resp.pid))
    /\ cntrs[ContainerOf(resp.pid)][PanicKey] # HostValue(hostFile)

\* C7, as claimed: every Read and every Write by a pid of no registered
\* container fails with "Container not found", whatever the offset and the
\* content.
C7_Original ==
    (resp.op \in {"Read", "Write"} /\ ContainerOf(resp.pid) = NoContainer) =>
        resp.herr = "ContainerNotFound"

\* C7, amended: by a pid of no registered container, a Read at offset 0 and a
\* Write of the integer 0 or 1 fail with "Container not found"; a Read at an
\* offset above 0 ends with end-of-stream and a Write of any other content
\* with EINVAL, both decided before the container is looked up; none of them
\* returns data or a byte count.
C7_Amended ==
    (resp.op \in {"Read", "Write"} /\ ContainerOf(resp.pid) = NoContainer) =>
        /\ resp.n = 0
        /\ resp.data = <<>>
        /\ resp.op = "Read" =>
               /\ resp.off = 0 => (resp.herr = "ContainerNotFound" /\ resp.err = "ContainerNotFound")
               /\ resp.off > 0 => resp.herr = "EOF"
        /\ resp.op = "Write" =>
               /\ IsOopsValue(resp.buf) =>
                      (resp.herr = "ContainerNotFound" /\ resp.err = "ContainerNotFound")
               /\ ~IsOopsValue(resp.buf) => resp.herr = "EINVAL"

\* C7 witness: a Read at offset 0 by a pid whose pid namespace resolves but
\* is not registered, while another container is.
C7_Witness ==
    /\ resp.op = "Read" /\ resp.off = 0 /\ resp.herr = "ContainerNotFound"
    /\ FindPidNsInode(resp.pid) # 0
    /\ DOMAIN cntrs # {}

\* C8: a Read or Write that fails with "Container not found" leaves the state
\* store as it was (no entry created or changed, no container record created)
\* and has not read the host file.
C8_Step ==
    (resp'.op \in {"Read", "Write"} /\ resp'.herr = "ContainerNotFound") =>
        /\ cntrs' = cntrs
        /\ hist' = hist
        /\ hostFile' = hostFile
        /\ ~resp'.hostRead

C8_NoSideEffects == [][C8_Step]_vars

\* C8 witness: a Write of a valid value refused for want of a container.
C8_Witness ==
    /\ resp.op = "Write" /\ resp.herr = "ContainerNotFound"
    /\ IsOopsValue(resp.buf)
    /\ DOMAIN cntrs # {}

\* C9: an Open whose flags are neither exactly O_RDONLY nor exactly O_WRONLY
\* returns EACCES, does not open the host file and yields no handle.
C9_Step ==
    (resp'.op = "Open" /\ resp'.flags \notin {O_RDONLY, O_WRONLY}) =>
        /\ resp'.err = "EACCES"
        /\ ~resp'.handle
        /\ ~resp'.opened
        /\ ionodeOpen' = ionodeOpen
        /\ handles' = handles

C9_OpenRefused == [][C9_Step]_vars

\* C9 witness: a read-write Open refused on a node nobody holds open.
C9_Witness ==
    /\ resp.op = "Open" /\ resp.flags = O_RDWR /\ resp.err = "EACCES"
    /\ handles[PanicOopsPath] = 0 /\ ~ionodeOpen[PanicOopsPath]

C10_Step ==
    resp'.op = "Setattr" =>
        /\ "size" \in resp'.valid => resp'.err = "OK"
        /\ "size" \notin resp'.valid => resp'.err = "EPERM"
        /\ attr' = attr

C4_Original ==
    /\ (\A r \in 1..MaxReqs : reqs[r].pc = "idle") =>
           \A c \in DOMAIN cntrs :
               log.written[c] # {} =>
                   (HasValue(cntrs, c) /\ cntrs[c][PanicKey] \in log.written[c])
    /\ (resp.op = "Read" /\ resp.herr = "OK") =>
           \E v \in log.stored[ContainerOf(resp.pid)] : resp.data = v \o <<NL>>

\* C11: every Open the adapter answers successfully returns the node as the
\* handle with the direct-I/O flag set in the response, whatever the node, its
\* handler and the flags of the request; an Open that fails returns no handle.
C11_DirectIO ==
    resp.op = "Open" =>
        /\ resp.err = "OK" => (resp.directIO /\ resp.handle)
        /\ resp.err # "OK" => ~resp.handle

\* C11 witness: a read-write Open, which the panic_on_oops handler would
\* refuse, answered successfully on the node of another handler.
C11_Witness ==
    /\ resp.op = "Open" /\ resp.err = "OK" /\ resp.flags = O_RDWR
    /\ resp.node = BinfmtRegisterPath
    /\ resp.directIO

\* C12: a Read of panic_on_oops at an offset above 0 ends with end-of-stream
\* and 0 bytes, has not read the host file and leaves every cache and the host
\* file as they were; the adapter answers it as a success with empty data.
C12_Step ==
    (resp'.op = "Read" /\ resp'.node = PanicOopsPath /\ resp'.off > 0) =>
        /\ resp'.herr = "EOF"
        /\ resp'.n = 0
        /\ ~resp'.hostRead
        /\ cntrs' = cntrs
        /\ hostFile' = hostFile
        /\ resp'.err = "OK"
        /\ resp'.data = <<>>
        /\ Len(resp'.data) = resp'.n

C12_EndOfStream == [][C12_Step]_vars

\* C12 witness: a Read above offset 0 by a pid of a registered container
\* whose cache holds no value, so that at offset 0 it would have gone to the
\* host.
C12_Witness ==
    /\ resp.op = "Read" /\ resp.off > 0 /\ resp.herr = "EOF" /\ resp.err = "OK"
    /\ ContainerOf(resp.pid) # NoContainer
    /\ ~HasValue(cntrs, ContainerOf(resp.pid))

\* C13: a Read of panic_on_oops at offset 0 by a pid of a registered
\* container whose cache has no entry consults the host; when the host read
\* fails it returns EIO, when the host's line is no integer it returns EINVAL,
\* and in both cases it returns no data, stores nothing (the entry is still
\* absent) and the next Read of that pid consults the host again.
C13_Step ==
    LET c == ContainerOf(resp'.pid)
    IN  (/\ resp'.op = "Read" /\ resp'.node = PanicOopsPath /\ resp'.off = 0
         /\ c # NoContainer /\ ~HasValue(cntrs, c)) =>
            /\ resp'.hostRead
            /\ resp'.hostFailed => (resp'.herr = "EIO" /\ resp'.err = "EIO")
            /\ (~resp'.hostFailed /\ ~Atoi(HostValue(hostFile)).ok) =>
                   (resp'.herr = "EINVAL" /\ resp'.err = "EINVAL")
            /\ resp'.herr \in {"EIO", "EINVAL"} =>
                   /\ resp'.n = 0
                   /\ resp'.data = <<>>
                   /\ cntrs' = cntrs
                   /\ ~HasValue(cntrs', c)
                   /\ File_Read(PanicOopsPath, cntrs', hostFile', resp'.pid,
                                ReadSize, 0, FALSE).hostRead

C13_HostFailure == [][C13_Step]_vars

\* C13 witness: a Read refused with EINVAL over a host file that holds text,
\* in a registered container that still has no entry.
C13_Witness ==
    /\ resp.op = "Read" /\ resp.off = 0 /\ resp.herr = "EINVAL" /\ resp.hostRead
    /\ hostFile = <<"x", NL>>
    /\ ContainerOf(resp.pid) # NoContainer
    /\ ~HasValue(cntrs, ContainerOf(resp.pid))

\* C14: a Lookup through the common handler or the panic_on_oops handler by
\* a pid whose pid-namespace inode resolves to 0 fails and does not stat the
\* host path; by a pid whose inode is not 0 it stats the host path and
\* returns what the stat returned, its error included.
C14_Lookup ==
    (resp.op = "Lookup" /\ resp.node \in {CommonPath, PanicOopsPath}) =>
        /\ FindPidNsInode(resp.pid) = 0 =>
               /\ resp.err = "NoPidNsInode"
               /\ ~resp.stat
               /\ ~resp.statFailed
        /\ FindPidNsInode(resp.pid) # 0 =>
               /\ resp.stat
               /\ resp.err = (IF resp.statFailed THEN "ENOENT" ELSE "OK")

\* C14 witness: a Lookup through the common handler refused for a pid whose
\* pid namespace cannot be resolved.
C14_Witness ==
    /\ resp.op = "Lookup" /\ resp.node = CommonPath
    /\ FindPidNsInode(resp.pid) = 0
    /\ resp.err = "NoPidNsInode"

\* C15: a successful Getattr returns the attributes cached for the node at
\* lookup, with the uid and gid of the handler's stat in their place when the
\* handler returns one and every other field as cached; neither Getattr nor
\* Attr changes the cached attributes, so Attr returns them as they were at
\* lookup whatever Getattr has answered before.
C15_Step ==
    LET f == resp'.node
        h == Handler_Getattr(LookupHandler(f).name, resp'.pid)
    IN  /\ (resp'.op = "Getattr" /\ resp'.err = "OK") =>
               /\ resp'.attr.size = attr[f].size
               /\ resp'.attr.mode = attr[f].mode
               /\ resp'.stat = h.stat
               /\ resp'.stat => (resp'.attr.uid = h.uid /\ resp'.attr.gid = h.gid)
               /\ ~resp'.stat => resp'.attr = attr[f]
        /\ resp'.op \in {"Getattr", "Attr"} =>
               /\ attr' = attr
               /\ attr'[f] = InitAttr
        /\ resp'.op = "Attr" => resp'.attr = InitAttr

C15_GetattrOverride == [][C15_Step]_vars

\* C15 witness: a Getattr answered with the handler's uid in place of the
\* cached one, which the node still holds.
C15_Witness ==
    /\ resp.op = "Getattr" /\ resp.err = "OK" /\ resp.stat
    /\ resp.attr.uid # attr[resp.node].uid
    /\ attr[resp.node] = InitAttr

\* The requests between taking the service's lock and releasing it.
InForget(R) == {r \in 1..MaxReqs : R[r].pc \in {"forgetCheck", "forgetDelete", "forgetUnlock"}}

\* C16: when a Forget returns, the table has no entry for its node's path and
\* is otherwise the table the Forget found (so a Forget of a path that had no
\* entry changed nothing); at most one Forget at a time is between Lock and
\* Unlock, it holds the lock, and the table changes only by the step of the
\* lock's holder or by a lookup that found the lock free.
C16_Step ==
    /\ \A r \in 1..MaxReqs :
           (reqs[r].pc = "forgetUnlock" /\ reqs'[r].pc = "idle") =>
               /\ reqs[r].node \notin DOMAIN nodeDB'
               /\ DOMAIN nodeDB' = DOMAIN reqs[r].seen \ {reqs[r].node}
               /\ \A g \in DOMAIN nodeDB' : nodeDB'[g] = reqs[r].seen[g]
    /\ Cardinality(InForget(reqs')) <= 1
    /\ \A r \in InForget(reqs') : lock' = r
    /\ nodeDB' # nodeDB =>
           \/ resp'.op = "NodeCreate" /\ lock = 0
           \/ lock # 0 /\ reqs[lock].pc = "forgetDelete"

C16_Forget == [][C16_Step]_vars

\* C16 witness: a Forget has removed its node from a table that still holds
\* other nodes, and the next Forget has taken the lock.
C16_Witness ==
    /\ resp.op = "Forget" /\ resp.node \notin DOMAIN nodeDB
    /\ DOMAIN nodeDB # {}
    /\ lock # 0 /\ reqs[lock].pc = "forgetDelete"

\* C17, as claimed: when the handler's Getattr, Open, Read, Write or Close
\* returns an error other than end-of-stream, or the node has no handler, the
\* adapter returns an error that carries a POSIX error code, with no data or
\* handle, and the handler is invoked exactly once.
C17_Original ==
    (/\ resp.op \in {"Getattr", "Open", "Read", "Write", "Release"}
     /\ resp.herr \notin {"OK", "EOF"}) =>
        /\ resp.err \in PosixCodes
        /\ resp.data = <<>>
        /\ ~resp.handle
        /\ LookupHandler(resp.node).ok => resp.calls = 1

\* C17, amended: in those cases the adapter returns the very error it got (or
\* its own "no handler" error), with no data, byte count, attributes or
\* handle. The error carries a POSIX error code exactly when it is one of the
\* typed errors; "Container not found" and "No supported handler" are plain
\* errors with a message and no code. The handler is invoked once per
\* request, and not at all when the node has none.
C17_Amended ==
    resp.op \in {"Getattr", "Open", "Read", "Write", "Release"} =>
        /\ resp.calls = (IF LookupHandler(resp.node).ok THEN 1 ELSE 0)
        /\ ~LookupHandler(resp.node).ok => resp.herr = "NoHandler"
        /\ resp.herr \notin {"OK", "EOF"} =>
               /\ resp.err = resp.herr
               /\ resp.err # "OK"
               /\ resp.err \in PosixCodes \cup {"ContainerNotFound", "NoHandler"}
               /\ resp.data = <<>>
               /\ resp.n = 0
               /\ resp.attr = <<>>
               /\ ~resp.handle
               /\ ~resp.directIO

\* C17 witness: a Read whose handler failed on the host file, answered with
\* the handler's EIO.
C17_Witness ==
    /\ resp.op = "Read" /\ resp.herr = "EIO" /\ resp.err = "EIO"
    /\ resp.hostFailed /\ resp.calls = 1

\* C18, as claimed: what Open acquired, Close releases. Once the kernel holds
\* no handle on a node (every successful Open has had its Release), the
\* ionode of the node holds no open host file.
C18_Original ==
    \A f \in Nodes : handles[f] = 0 => ~ionodeOpen[f]

\* C19: a successful Write to panic_on_oops is answered with the length of
\* the request's buffer as the byte count, the white space that was trimmed
\* before storing included; a failed Write is answered with 0 bytes.
C19_BytesWritten ==
    (resp.op = "Write" /\ resp.node = PanicOopsPath) =>
        /\ resp.herr = "OK" =>
               /\ resp.err = "OK"
               /\ resp.n = Len(resp.buf)
               /\ HasValue(cntrs, ContainerOf(resp.pid))
        /\ resp.herr # "OK" => (resp.err # "OK" /\ resp.n = 0)

\* C19 witness: a Write of " 1\n" answered with 3 bytes, of which one was
\* stored.
C19_Witness ==
    /\ resp.op = "Write" /\ resp.herr = "OK" /\ resp.buf = <<" ", "1", NL>>
    /\ resp.n = 3
    /\ cntrs[ContainerOf(resp.pid)][PanicKey] = <<"1">>

\* C20, as claimed: with Opens of a node running at the same time, each Open
\* of panic_on_oops is decided on the flags of its own request: flags other
\* than read-only or write-only are refused with EACCES, and read-only and
\* write-only are not.
C20_Original ==
    (resp.op = "Open" /\ resp.node = PanicOopsPath) =>
        /\ resp.flags \notin {O_RDONLY, O_WRONLY} => (resp.err = "EACCES" /\ ~resp.handle)
        /\ resp.flags \in {O_RDONLY, O_WRONLY} => resp.err # "EACCES"

\* C21, as claimed: under any interleaving of Reads and Writes in a container,
\* a value stored by a completed Write is not replaced by a seed from the
\* host: the Read path stores only into a container where no Write has
\* completed, and a Read that starts once the Writes of a single value V have
\* completed returns V.
C21_Step ==
    /\ \A c \in DOMAIN cntrs :
           (resp'.op = "Read" /\ cntrs'[c] # cntrs[c]) => log.written[c] = {}
    /\ (reqs' = reqs /\ resp'.op = "Read" /\ resp'.herr = "OK" /\ resp'.off = 0) =>
           \A v \in log.written[ContainerOf(resp'.pid)] :
               log.written[ContainerOf(resp'.pid)] = {v} =>
                   resp'.data = copyResultBuffer(ReadSize, v \o <<NL>>).data

C21_Original == [][C21_Step]_vars

\* C22, as claimed: every value a container's cache holds for panic_on_oops
\* is a text without white space that reads as the integer 0 or the integer
\* 1, whether a Write stored it or a Read seeded it from the host.
C22_Original ==
    \A c \in DOMAIN cntrs :
        HasValue(cntrs, c) =>
            /\ StripWs(cntrs[c][PanicKey]) = cntrs[c][PanicKey]
            /\ IsOopsValue(cntrs[c][PanicKey])

\* C22, amended: every value a container's cache holds for panic_on_oops is
\* a text without white space that reads as an integer; a value stored by a
\* Write is 0 or 1, while a value seeded by a Read is whatever integer the
\* host file held, in that range or not.
C22_Amended ==
    \A c \in DOMAIN cntrs :
        HasValue(cntrs, c) =>
            /\ StripWs(cntrs[c][PanicKey]) = cntrs[c][PanicKey]
            /\ IsIntegerText(cntrs[c][PanicKey])
            /\ hist[c].kind \in {"read", "write"}
            /\ hist[c].kind = "write" => IsOopsValue(cntrs[c][PanicKey])

\* C22 witness: one container holds the 5 a Read seeded from the host, the
\* other the 1 that a Write of " 1\n" stored.
C22_Witness ==
    /\ HasValue(cntrs, 1) /\ hist[1].kind = "read" /\ cntrs[1][PanicKey] = <<"5">>
    /\ HasValue(cntrs, 2) /\ hist[2] = [kind |-> "write", val |-> <<" ", "1", NL>>]
    /\ cntrs[2][PanicKey] = <<"1">>

\* C23: an entry of a container's cache for panic_on_oops, once there, stays:
\* no operation removes it (nor the container's record). A Read at offset 0
\* that finds the entry succeeds with the entry's value and a newline, without
\* reading the host and without changing the store; so after a Write in a
\* container the Reads in it return the written value whatever the host file
\* holds, or would hold.
C23_Step ==
    LET c == ContainerOf(resp'.pid)
    IN  /\ \A b \in DOMAIN cntrs :
               /\ b \in DOMAIN cntrs'
               /\ HasValue(cntrs, b) => HasValue(cntrs', b)
        /\ (resp'.op = "Read" /\ resp'.off = 0 /\ HasValue(cntrs, c)) =>
               /\ resp'.herr = "OK"
               /\ ~resp'.hostRead
               /\ resp'.data = cntrs[c][PanicKey] \o <<NL>>
               /\ cntrs' = cntrs
        /\ (resp'.op = "Read" /\ resp'.off = 0 /\ c # NoContainer /\ hist[c].kind = "write") =>
               /\ resp'.data = StripWs(hist[c].val) \o <<NL>>
               /\ \A h \in HostContents, ioFail \in BOOLEAN :
                      File_Read(PanicOopsPath, cntrs, h, resp'.pid, ReadSize, 0, ioFail).data
                        = resp'.data

C23_Monotonic == [][C23_Step]_vars

\* C23 witness: a Read served with the value of a Write while the host file
\* holds text that is no integer, which a Read from the host would refuse.
C23_Witness ==
    /\ resp.op = "Read" /\ resp.off = 0 /\ resp.herr = "OK" /\ ~resp.hostRead
    /\ ContainerOf(resp.pid) # NoContainer
    /\ hist[ContainerOf(resp.pid)].kind = "write"
    /\ resp.data = cntrs[ContainerOf(resp.pid)][PanicKey] \o <<NL>>
    /\ ~IsIntegerText(HostValue(hostFile))

====
